---------------------------- MODULE Spec2Model ----------------------------
(***************************************************************************)
(* A model of grafana-structured-logger (src/src/index.ts): a logging      *)
(* facade that writes one line per call to a console channel, as a JSON    *)
(* record in server context and as the plain message in client context.    *)
(*                                                                         *)
(* JavaScript strings are modelled as sequences of one-character strings,  *)
(* so that JSON.stringify is modelled by what it writes, character by      *)
(* character.  JavaScript values are tagged records.                       *)
(***************************************************************************)
EXTENDS Integers, Sequences, FiniteSets, TLC

VARIABLES
    window,         \* the value of globalThis.window (undefined when absent)
    heap,           \* the label objects the caller has handed to init, by reference
    defaultLabels,  \* index.ts:20, undefined or a reference into heap
    given,          \* the defaultLabels object the caller last gave to init
    call,           \* the logging call observed: its arguments and circumstances
    console         \* the writes of the observed call: <<[channel, text], ...>>

vars == <<window, heap, defaultLabels, given, call, console>>

-----------------------------------------------------------------------------
(* Bounds of the model *)

\* a label object of an input has at most MaxKeys keys
MaxKeys == 2

-----------------------------------------------------------------------------
(* JavaScript values *)

Undefined == [t |-> "undefined"]

Null == [t |-> "null"]

Str(s) == [t |-> "string", s |-> s]

\* an object: its own enumerable properties, in enumeration order
Obj(props) == [t |-> "object", props |-> props]

\* a reference to a caller-owned object on the heap
Ref(r) == [t |-> "ref", r |-> r]

\* an Error instance: its message and its stack (a string, or undefined)
Err(message, stack) == [t |-> "error", message |-> message, stack |-> stack]

\* ToBoolean, for the kinds of value the program tests
Truthy(v) ==
    CASE v.t = "undefined" -> FALSE
      [] v.t = "null"      -> FALSE
      [] v.t = "string"    -> Len(v.s) > 0
      [] OTHER             -> TRUE

Digits == <<"0", "1", "2", "3", "4", "5", "6", "7", "8", "9">>

IsDigit(c) == \E i \in 1..10 : Digits[i] = c

DigitVal(c) == (CHOOSE i \in 1..10 : Digits[i] = c) - 1

RECURSIVE ToNumber(_)
ToNumber(k) ==
    IF k = <<>> THEN 0
    ELSE 10 * ToNumber(SubSeq(k, 1, Len(k) - 1)) + DigitVal(k[Len(k)])

\* an integer-like property key (a canonical array index; the limit of
\* 2^32 - 2 is far above the keys of the model): such keys are enumerated
\* first, in ascending numeric order, before the other keys
IsArrayIndex(k) ==
    /\ Len(k) > 0
    /\ \A i \in 1..Len(k) : IsDigit(k[i])
    /\ (Len(k) > 1 => k[1] # "0")

OwnKeys(props) == [i \in 1..Len(props) |-> props[i].k]

HasKey(props, k) == \E i \in 1..Len(props) : props[i].k = k

\* the position at which a new key k is enumerated among props
InsertAt(props, k) ==
    IF IsArrayIndex(k)
    THEN 1 + Cardinality({i \in 1..Len(props) :
                 IsArrayIndex(props[i].k) /\ ToNumber(props[i].k) < ToNumber(k)})
    ELSE Len(props) + 1

\* CreateDataProperty / Set on an ordinary object: an existing key keeps its
\* place, a new key is enumerated after the keys of its kind
DefineProp(props, k, v) ==
    IF HasKey(props, k)
    THEN [i \in 1..Len(props) |->
             IF props[i].k = k THEN [k |-> k, v |-> v] ELSE props[i]]
    ELSE LET p == InsertAt(props, k)
         IN  SubSeq(props, 1, p - 1) \o <<[k |-> k, v |-> v]>>
                 \o SubSeq(props, p, Len(props))

DeleteProp(props, k) == SelectSeq(props, LAMBDA e : e.k # k)

\* the value a reference points at in the heap h, any other value as it is
DerefIn(h, v) == IF v.t = "ref" THEN Obj(h[v.r]) ELSE v

Deref(v) == DerefIn(heap, v)

\* the properties of the object v refers to in h, none if v is no object
PropsIn(h, v) == IF DerefIn(h, v).t = "object" THEN DerefIn(h, v).props ELSE <<>>

\* { ...target, ...source }: copies the own enumerable properties of source,
\* in its enumeration order; spreading undefined or null copies nothing
RECURSIVE CopyProps(_, _, _)
CopyProps(target, from, i) ==
    IF i > Len(from) THEN target
    ELSE CopyProps(DefineProp(target, from[i].k, from[i].v), from, i + 1)

Spread(target, source) ==
    IF Deref(source).t = "object"
    THEN CopyProps(target, Deref(source).props, 1)
    ELSE target

-----------------------------------------------------------------------------
(* JSON.stringify, as index.ts:45 uses it *)

\* QuoteJSONString without the enclosing quotes: the escapes of the
\* characters that need one
EscapeChar(c) ==
    CASE c = "\"" -> <<"\\", "\"">>
      [] c = "\\" -> <<"\\", "\\">>
      [] c = "\n" -> <<"\\", "n">>
      [] c = "\t" -> <<"\\", "t">>
      [] OTHER    -> <<c>>

RECURSIVE EscapeFrom(_, _)
EscapeFrom(s, i) ==
    IF i > Len(s) THEN <<>> ELSE EscapeChar(s[i]) \o EscapeFrom(s, i + 1)

QuoteJSONString(s) == <<"\"">> \o EscapeFrom(s, 1) \o <<"\"">>

\* SerializeJSONProperty / SerializeJSONObject: a property whose value is
\* undefined is left out, null is written as null, properties are written in
\* enumeration order and separated by commas, with no white space
RECURSIVE SerializeJSONProperty(_), SerializeMembers(_, _, _)
SerializeMembers(props, i, first) ==
    IF i > Len(props) THEN <<>>
    ELSE IF props[i].v.t = "undefined"
         THEN SerializeMembers(props, i + 1, first)
         ELSE (IF first THEN <<>> ELSE <<",">>)
                  \o QuoteJSONString(props[i].k) \o <<":">>
                  \o SerializeJSONProperty(props[i].v)
                  \o SerializeMembers(props, i + 1, FALSE)

SerializeJSONProperty(v) ==
    CASE v.t = "string" -> QuoteJSONString(v.s)
      [] v.t = "null"   -> <<"n", "u", "l", "l">>
      [] v.t = "object" -> <<"{">> \o SerializeMembers(v.props, 1, TRUE) \o <<"}">>

JSONstringify(v) == SerializeJSONProperty(Deref(v))

-----------------------------------------------------------------------------
(* The clock *)

\* the instant the clock starts at, as the tests fix it
Epoch0 == <<"2", "0", "2", "4", "-", "0", "1", "-", "1", "5", "T",
            "1", "0", ":", "3", "0", ":", "0", "0", ".">>

\* Date.prototype.toISOString for the instants Epoch0 + ms, ms < 1000
toISOString(ms) ==
    Epoch0 \o <<Digits[((ms \div 100) % 10) + 1],
                Digits[((ms \div 10) % 10) + 1],
                Digits[(ms % 10) + 1], "Z">>

-----------------------------------------------------------------------------
(* The logger *)

LevelDebug == <<"d", "e", "b", "u", "g">>

LevelInfo == <<"i", "n", "f", "o">>

LevelWarning == <<"w", "a", "r", "n", "i", "n", "g">>

LevelError == <<"e", "r", "r", "o", "r">>

LevelCritical == <<"c", "r", "i", "t", "i", "c", "a", "l">>

LogLevel == {LevelDebug, LevelInfo, LevelWarning, LevelError, LevelCritical}

KeyTime == <<"t", "i", "m", "e">>

KeyLevel == <<"l", "e", "v", "e", "l">>

KeyMessage == <<"m", "e", "s", "s", "a", "g", "e">>

KeyStack == <<"s", "t", "a", "c", "k">>

KeyLabels == <<"l", "a", "b", "e", "l", "s">>

\* the context the call observed so far was made in, "none" if none is
Context(c) ==
    IF c.op \in {"none", "init"} THEN "none"
    ELSE IF c.window = Undefined THEN "server" ELSE "client"

\* a plausible slip: the context is decided once, by the first call
isClientCached ==
    IF Context(call) = "none" THEN window.t # "undefined"
    ELSE Context(call) = "client"

\* typeof window !== 'undefined'
isClient == window.t # "undefined"

\* a plausible slip: the case 'critical' is missing and falls to the default
ServerChannelNoCritical(level) ==
    CASE level = LevelDebug    -> "debug"
      [] level = LevelWarning  -> "warn"
      [] level = LevelError    -> "error"
      [] OTHER                 -> "info"

\* the switch on level of emitServer (index.ts:47-61): the console method
ServerChannel(level) ==
    CASE level = LevelDebug    -> "debug"
      [] level = LevelWarning  -> "warn"
      [] level = LevelError    -> "error"
      [] level = LevelCritical -> "error"
      [] level = LevelInfo     -> "info"
      [] OTHER                 -> "info"

\* the switch on level of emitClient (index.ts:70-84): the console method
ClientChannel(level) ==
    CASE level = LevelDebug    -> "debug"
      [] level = LevelWarning  -> "warn"
      [] level = LevelError    -> "error"
      [] level = LevelCritical -> "error"
      [] level = LevelInfo     -> "info"
      [] OTHER                 -> "info"

\* a plausible slip: { ...labels, ...defaultLabels }, the defaults win
MergedLabelsDefaultsWin(labels) ==
    IF Truthy(defaultLabels)
    THEN Obj(Spread(Spread(<<>>, labels), defaultLabels))
    ELSE labels

\* a plausible slip: the call-site labels are laid down first
MergedLabelsCallFirst(labels) ==
    IF Truthy(defaultLabels)
    THEN Obj(Spread(Spread(Spread(<<>>, labels), defaultLabels), labels))
    ELSE labels

\* defaultLabels ? { ...defaultLabels, ...labels } : labels
MergedLabels(labels) ==
    IF Truthy(defaultLabels)
    THEN Obj(Spread(Spread(<<>>, defaultLabels), labels))
    ELSE labels

\* a plausible slip: labels are written whenever there is a mapping, empty or not
LogRecordLabelsAlways(level, messageOrError, labels, ms) ==
    LET isError == messageOrError.t = "error"
        mergedLabels == MergedLabels(labels)
        r1 == DefineProp(<<>>, KeyTime, Str(toISOString(ms)))
        r2 == DefineProp(r1, KeyLevel, Str(level))
        r3 == DefineProp(r2, KeyMessage,
                  IF isError THEN Str(messageOrError.message) ELSE messageOrError)
        r4 == Spread(r3,
                  IF isError /\ Truthy(messageOrError.stack)
                  THEN Obj(<<[k |-> KeyStack, v |-> messageOrError.stack]>>)
                  ELSE Obj(<<>>))
        r5 == Spread(r4,
                  IF Truthy(mergedLabels)
                  THEN Obj(<<[k |-> KeyLabels, v |-> mergedLabels]>>)
                  ELSE Obj(<<>>))
    IN  Obj(r5)

\* a plausible slip: the stack of an Error is written whatever it is
LogRecordStackAlways(level, messageOrError, labels, ms) ==
    LET isError == messageOrError.t = "error"
        mergedLabels == MergedLabels(labels)
        r1 == DefineProp(<<>>, KeyTime, Str(toISOString(ms)))
        r2 == DefineProp(r1, KeyLevel, Str(level))
        r3 == DefineProp(r2, KeyMessage,
                  IF isError THEN Str(messageOrError.message) ELSE messageOrError)
        r4 == Spread(r3,
                  IF isError
                  THEN Obj(<<[k |-> KeyStack, v |-> messageOrError.stack]>>)
                  ELSE Obj(<<>>))
        r5 == Spread(r4,
                  IF Truthy(mergedLabels) /\ Len(OwnKeys(mergedLabels.props)) > 0
                  THEN Obj(<<[k |-> KeyLabels, v |-> mergedLabels]>>)
                  ELSE Obj(<<>>))
    IN  Obj(r5)

\* the record literal of emitServer
LogRecord(level, messageOrError, labels, ms) ==
    LET isError == messageOrError.t = "error"
        mergedLabels == MergedLabels(labels)
        r1 == DefineProp(<<>>, KeyTime, Str(toISOString(ms)))
        r2 == DefineProp(r1, KeyLevel, Str(level))
        r3 == DefineProp(r2, KeyMessage,
                  IF isError THEN Str(messageOrError.message) ELSE messageOrError)
        r4 == Spread(r3,
                  IF isError /\ Truthy(messageOrError.stack)
                  THEN Obj(<<[k |-> KeyStack, v |-> messageOrError.stack]>>)
                  ELSE Obj(<<>>))
        r5 == Spread(r4,
                  IF Truthy(mergedLabels) /\ Len(OwnKeys(mergedLabels.props)) > 0
                  THEN Obj(<<[k |-> KeyLabels, v |-> mergedLabels]>>)
                  ELSE Obj(<<>>))
    IN  Obj(r5)

\* emitServer: the writes it makes
emitServer(level, messageOrError, labels, ms) ==
    LET output == JSONstringify(LogRecord(level, messageOrError, labels, ms))
    IN  <<[channel |-> ServerChannel(level), text |-> output]>>

\* a plausible slip: the stack of an Error is written in place of its message
emitClientStack(level, messageOrError) ==
    LET msg == IF messageOrError.t = "error"
               THEN IF Truthy(messageOrError.stack)
                    THEN messageOrError.stack.s ELSE messageOrError.message
               ELSE messageOrError.s
    IN  <<[channel |-> ClientChannel(level), text |-> msg]>>

\* emitClient: the writes it makes
emitClient(level, messageOrError) ==
    LET msg == IF messageOrError.t = "error"
               THEN messageOrError.message ELSE messageOrError.s
    IN  <<[channel |-> ClientChannel(level), text |-> msg]>>

\* emit: the writes it makes
emit(level, messageOrError, labels, ms) ==
    IF isClient
    THEN emitClient(level, messageOrError)
    ELSE emitServer(level, messageOrError, labels, ms)

\* a plausible slip: Object.assign(defaultLabels, labels) in place of the
\* spread, which writes the call-site labels into the mapping given to init
emitObjectsAssign(labels, h) ==
    IF ~isClient /\ Truthy(defaultLabels)
    THEN [heap |-> [h EXCEPT ![defaultLabels.r] =
                                 CopyProps(@, PropsIn(h, labels), 1)],
          defaultLabels |-> defaultLabels,
          labels |-> labels]
    ELSE [heap |-> h, defaultLabels |-> defaultLabels, labels |-> labels]

\* what emit leaves of the objects it can reach, called with the heap h: the
\* heap, the variable defaultLabels and the call-site labels object.  Neither
\* emitClient nor emitServer assigns defaultLabels or a property of a mapping:
\* the spread of index.ts:35 fills a new object.
emitObjects(labels, h) ==
    [heap |-> h, defaultLabels |-> defaultLabels, labels |-> labels]

\* a plausible slip: the given labels are merged into the earlier defaults
initMerge(config, h) ==
    IF Truthy(config.defaultLabels)
    THEN [defaultLabels |-> Ref(Len(h) + 1),
          heap |-> Append(h, CopyProps(PropsIn(h, defaultLabels),
                                       PropsIn(h, config.defaultLabels), 1))]
    ELSE [defaultLabels |-> defaultLabels, heap |-> h]

\* a plausible slip: defaultLabels = { ...config.defaultLabels }, a copy of
\* the given mapping is kept in place of the mapping itself
initCopy(config, h) ==
    IF Truthy(config.defaultLabels)
    THEN [defaultLabels |-> Ref(Len(h) + 1),
          heap |-> Append(h, PropsIn(h, config.defaultLabels))]
    ELSE [defaultLabels |-> defaultLabels, heap |-> h]

\* init, called with the heap h: the defaultLabels and the heap it leaves
init(config, h) ==
    IF Truthy(config.defaultLabels)
    THEN [defaultLabels |-> config.defaultLabels, heap |-> h]
    ELSE [defaultLabels |-> defaultLabels, heap |-> h]

-----------------------------------------------------------------------------
(* The inputs of the model *)

\* label keys: two names and an integer-like key
LabelKeys == {<<"a">>, <<"b">>, <<"2">>}

\* integer-like label keys, whose numeric order is not their order as text
IndexKeys == {<<"2">>, <<"1", "0">>}

\* the values of default labels and of call-site labels: the types Label
\* allows (index.ts:3), with different strings so that an override shows
DefaultValues == {Str(<<"v">>), Null, Undefined}

CallValues == {Str(<<"w">>), Null, Undefined}

\* the objects with n keys among keys, each in its enumeration order
RECURSIVE ObjectsOfSize(_, _, _)
ObjectsOfSize(n, keys, values) ==
    IF n = 0 THEN {<<>>}
    ELSE {DefineProp(o, k, v) :
              o \in ObjectsOfSize(n - 1, keys, values), k \in keys, v \in values}

\* the label objects of at most MaxKeys keys with the given values
LabelObjects(values) ==
    UNION {ObjectsOfSize(n, LabelKeys, values) \cup ObjectsOfSize(n, IndexKeys, values) :
               n \in 0..MaxKeys}

\* the objects a caller gives to init
DefaultObjects == LabelObjects(DefaultValues)

\* a labels argument: absent, or an object literal
LabelArgs == {Undefined} \cup {Obj(o) : o \in LabelObjects(CallValues)}

StackText == <<"B", "\n", "\t", "a", "t">>

\* a message: a plain one, and one of characters JSON escapes
MessageArgs == {Str(<<"m">>), Str(<<"\"", "\\", "\n">>)}

\* an Error with a stack, one without, and one whose stack is empty
ErrorArgs ==
    {Err(<<"B">>, Str(StackText)), Err(<<"B">>, Undefined), Err(<<"B">>, Str(<<>>))}

\* a level that is none of LogLevel
LevelOther == <<"t", "r", "a", "c", "e">>

\* the instant new Date() returns, in ms after Epoch0 (the tests fix one too)
Instants == {789}

\* the values of globalThis.window: absent, or the object a browser (or
\* index.test.ts:166) sets
WindowValues == {Undefined, Obj(<<>>)}

-----------------------------------------------------------------------------
(* The state machine *)

\* no call is under observation.  Of a call, after is the call-site labels
\* object as the call leaves it, and initial the contents the defaults mapping
\* had when it was given to init, for the calls that follow that init directly.
NoCall ==
    [op |-> "none", level |-> <<>>, input |-> Undefined, labels |-> Undefined,
     ms |-> 0, window |-> Undefined, before |-> "none", defaults |-> Undefined,
     after |-> Undefined, initial |-> Undefined]

\* the console spies hold no write (index.test.ts:16, vi.clearAllMocks)
Cleared == console = <<>> /\ call = NoCall

\* drops the heap objects neither the caller (gv) nor the logger (dl) still
\* refers to, and renumbers the others
Collect(h, dl, gv) ==
    CASE gv.t = "ref" /\ dl.t = "ref" /\ gv.r = dl.r ->
             [heap |-> <<h[gv.r]>>, defaultLabels |-> Ref(1), given |-> Ref(1)]
      [] gv.t = "ref" /\ dl.t = "ref" /\ gv.r # dl.r ->
             [heap |-> <<h[gv.r], h[dl.r]>>, defaultLabels |-> Ref(2),
              given |-> Ref(1)]
      [] gv.t = "ref" /\ dl.t # "ref" ->
             [heap |-> <<h[gv.r]>>, defaultLabels |-> dl, given |-> Ref(1)]
      [] gv.t # "ref" /\ dl.t = "ref" ->
             [heap |-> <<h[dl.r]>>, defaultLabels |-> Ref(1), given |-> gv]
      [] OTHER ->
             [heap |-> <<>>, defaultLabels |-> dl, given |-> gv]

Init ==
    /\ window \in WindowValues
    /\ heap = <<>>
    /\ defaultLabels = Undefined
    /\ given = Undefined
    /\ call = NoCall
    /\ console = <<>>

\* vi.clearAllMocks() (index.test.ts:16): the observed call is forgotten.  The
\* other steps are taken with the spies cleared, so that call and console
\* describe one call at a time.
clearAllMocks ==
    /\ ~Cleared
    /\ call' = NoCall
    /\ console' = <<>>
    /\ UNCHANGED <<window, heap, defaultLabels, given>>

\* globalThis.window is set or deleted (index.test.ts:29, 166)
SetWindow ==
    /\ Cleared
    /\ \E w \in WindowValues : w # window /\ window' = w
    /\ UNCHANGED <<heap, defaultLabels, given, call, console>>

\* a call of init with the heap h: its effect, and the call as observed
InitCall(config, h, gv) ==
    LET s == init(config, h)
        c == Collect(s.heap, s.defaultLabels, gv)
    IN  /\ heap' = c.heap
        /\ defaultLabels' = c.defaultLabels
        /\ given' = c.given
        /\ call' = [NoCall EXCEPT !.op = "init",
                                  !.labels =
                                      IF config.defaultLabels.t = "ref"
                                      THEN Obj(h[config.defaultLabels.r])
                                      ELSE config.defaultLabels,
                                  !.defaults = Deref(defaultLabels),
                                  !.initial =
                                      IF config.defaultLabels.t = "ref"
                                      THEN Obj(h[config.defaultLabels.r])
                                      ELSE call.initial]
        /\ console' = <<>>
        /\ UNCHANGED window

\* init({ defaultLabels: o }) with a new object o of the caller
InitProvided ==
    /\ Cleared
    /\ \E o \in DefaultObjects :
          InitCall([defaultLabels |-> Ref(Len(heap) + 1)], Append(heap, o),
                   Ref(Len(heap) + 1))

\* init({}) and init({ defaultLabels: undefined })
InitAbsent ==
    /\ Cleared
    /\ InitCall([defaultLabels |-> Undefined], heap, given)

\* the caller sets (o[k] = v) or deletes (delete o[k]) a property of the
\* object o it gave to init, with k among K, v among V and the object it
\* leaves among O; no call is observed afterwards
callerMutate(K, V, O) ==
    /\ given.t = "ref"
    /\ \E k \in K :
          \/ \E v \in V :
                /\ DefineProp(heap[given.r], k, v) \in O
                /\ heap' = [heap EXCEPT ![given.r] = DefineProp(@, k, v)]
          \/ /\ HasKey(heap[given.r], k)
             /\ heap' = [heap EXCEPT ![given.r] = DeleteProp(@, k)]
    /\ call' = [NoCall EXCEPT !.initial = call.initial]
    /\ console' = <<>>
    /\ UNCHANGED <<window, defaultLabels, given>>

\* the caller sets or deletes a property of the object it gave to init
CallerMutate ==
    /\ Cleared
    /\ callerMutate(LabelKeys \cup IndexKeys, DefaultValues, DefaultObjects)

\* one call of a logging operation, made at some instant: what it writes
Log(op, level, messageOrError, labels) ==
    LET e == emitObjects(labels, heap)
    IN  /\ \E ms \in Instants :
            /\ call' = [op |-> op, level |-> level, input |-> messageOrError,
                        labels |-> labels, ms |-> ms, window |-> window,
                        before |-> Context(call),
                        defaults |-> Deref(defaultLabels),
                        after |-> e.labels, initial |-> call.initial]
            /\ console' = emit(level, messageOrError, labels, ms)
        /\ heap' = e.heap
        /\ defaultLabels' = e.defaultLabels
        /\ UNCHANGED <<window, given>>

\* the operations of the public API (index.ts:120-166), with labels among L
infoCall(L) == \E m \in MessageArgs, l \in L : Log("info", LevelInfo, m, l)

debugCall(L) == \E m \in MessageArgs, l \in L : Log("debug", LevelDebug, m, l)

warnCall(L) == \E m \in MessageArgs, l \in L : Log("warn", LevelWarning, m, l)

errorCall(L) ==
    \E e \in MessageArgs \cup ErrorArgs, l \in L : Log("error", LevelError, e, l)

criticalCall(L) ==
    \E e \in MessageArgs \cup ErrorArgs, l \in L :
        Log("critical", LevelCritical, e, l)

info == Cleared /\ infoCall(LabelArgs)

debug == Cleared /\ debugCall(LabelArgs)

warn == Cleared /\ warnCall(LabelArgs)

error == Cleared /\ errorCall(LabelArgs)

critical == Cleared /\ criticalCall(LabelArgs)

\* emit reached with a level that is none of LogLevel: no operation of the
\* public API passes one, the switch of emitServer and emitClient allows for it
emitOther ==
    /\ Cleared
    /\ \E e \in MessageArgs \cup ErrorArgs, l \in LabelArgs :
          Log("emit", LevelOther, e, l)

Next ==
    \/ clearAllMocks
    \/ SetWindow
    \/ InitProvided
    \/ InitAbsent
    \/ CallerMutate
    \/ info
    \/ debug
    \/ warn
    \/ error
    \/ critical

Spec == Init /\ [][Next]_vars

\* the public API, and emit called with any level
NextEmit ==
    \/ clearAllMocks
    \/ SetWindow
    \/ InitProvided
    \/ InitAbsent
    \/ CallerMutate
    \/ info
    \/ debug
    \/ warn
    \/ error
    \/ critical
    \/ emitOther

SpecEmit == Init /\ [][NextEmit]_vars

\* the labels of the calls of SpecSeq
SeqLabelArgs == {Undefined, Obj(<<[k |-> <<"a">>, v |-> Str(<<"w">>)]>>)}

\* globalThis.window is set or deleted while a call is still observed
changeWindow ==
    /\ \E w \in WindowValues : w # window /\ window' = w
    /\ UNCHANGED <<heap, defaultLabels, given, call, console>>

\* logging calls one after the other, the window global coming and going
\* between them: call.before is the context of the call before
infoNext == infoCall(SeqLabelArgs)

debugNext == debugCall(SeqLabelArgs)

warnNext == warnCall(SeqLabelArgs)

errorNext == errorCall(SeqLabelArgs)

criticalNext == criticalCall(SeqLabelArgs)

NextSeq ==
    \/ changeWindow
    \/ infoNext
    \/ debugNext
    \/ warnNext
    \/ errorNext
    \/ criticalNext

SpecSeq == Init /\ [][NextSeq]_vars

\* the keys and values of the mappings of SpecAlias: the caller writes a
\* value no mapping holds when it is given to init
AliasKeys == {<<"a">>, <<"b">>, <<"c">>}

AliasValues == {Str(<<"v">>), Str(<<"x">>)}

\* the mappings the caller gives to init in SpecAlias
AliasGiven ==
    {<<>>, <<[k |-> <<"a">>, v |-> Str(<<"v">>)], [k |-> <<"b">>, v |-> Str(<<"v">>)]>>}

\* the mappings the caller's changes lead to
AliasObjects == UNION {ObjectsOfSize(n, AliasKeys, AliasValues) : n \in 0..MaxKeys}

\* init({ defaultLabels: o }) while a call is still observed
initNext ==
    \E o \in AliasGiven :
        InitCall([defaultLabels |-> Ref(Len(heap) + 1)], Append(heap, o),
                 Ref(Len(heap) + 1))

\* the caller changes the mapping it gave to init, after init has returned
mutateNext == callerMutate(AliasKeys, AliasValues, AliasObjects)

\* init, changes by the caller of the mapping it gave, and logging calls, one
\* after the other: call.initial is what the mapping held when it was given
NextAlias ==
    \/ changeWindow
    \/ initNext
    \/ mutateNext
    \/ infoNext
    \/ debugNext
    \/ warnNext
    \/ errorNext
    \/ criticalNext

SpecAlias == Init /\ [][NextAlias]_vars

-----------------------------------------------------------------------------
(* Reading an emitted line back: a JSON reader for the properties below.   *)
(* It keeps the members of an object in the order they are written.  A     *)
(* result is [ok, v, i]: whether the text read well, the value read and    *)
(* the index after it.                                                     *)

Bad == [ok |-> FALSE, v |-> Undefined, i |-> 0]

Unescape(c) ==
    CASE c = "n" -> "\n"
      [] c = "t" -> "\t"
      [] OTHER   -> c

\* the characters of a string literal from index i on, up to its closing quote
RECURSIVE ReadChars(_, _, _)
ReadChars(t, i, acc) ==
    IF i > Len(t) THEN Bad
    ELSE IF t[i] = "\"" THEN [ok |-> TRUE, v |-> Str(acc), i |-> i + 1]
    ELSE IF t[i] = "\\"
         THEN IF i + 1 > Len(t) \/ t[i + 1] \notin {"\"", "\\", "n", "t"}
              THEN Bad
              ELSE ReadChars(t, i + 2, Append(acc, Unescape(t[i + 1])))
    ELSE IF t[i] \in {"\n", "\t"} THEN Bad
    ELSE ReadChars(t, i + 1, Append(acc, t[i]))

ReadString(t, i) ==
    IF i <= Len(t) /\ t[i] = "\"" THEN ReadChars(t, i + 1, <<>>) ELSE Bad

RECURSIVE ReadValue(_, _), ReadMembers(_, _, _)
ReadMembers(t, i, props) ==
    LET key == ReadString(t, i)
        val == ReadValue(t, key.i + 1)
        all == Append(props, [k |-> key.v.s, v |-> val.v])
    IN  IF ~key.ok \/ key.i > Len(t) \/ t[key.i] # ":" THEN Bad
        ELSE IF ~val.ok \/ val.i > Len(t) THEN Bad
        ELSE IF t[val.i] = "}" THEN [ok |-> TRUE, v |-> Obj(all), i |-> val.i + 1]
        ELSE IF t[val.i] = "," THEN ReadMembers(t, val.i + 1, all)
        ELSE Bad

ReadValue(t, i) ==
    IF i > Len(t) THEN Bad
    ELSE IF t[i] = "\"" THEN ReadString(t, i)
    ELSE IF t[i] = "{"
         THEN IF i + 1 <= Len(t) /\ t[i + 1] = "}"
              THEN [ok |-> TRUE, v |-> Obj(<<>>), i |-> i + 2]
              ELSE ReadMembers(t, i + 1, <<>>)
    ELSE IF i + 3 <= Len(t) /\ SubSeq(t, i, i + 3) = <<"n", "u", "l", "l">>
         THEN [ok |-> TRUE, v |-> Null, i |-> i + 4]
    ELSE Bad

\* the value a whole text denotes, or Undefined when the text is not JSON
JSONparse(t) ==
    LET r == ReadValue(t, 1)
    IN  IF r.ok /\ r.i = Len(t) + 1 THEN r.v ELSE Undefined

\* the value of key k among props, Undefined when k is no key
Get(props, k) ==
    IF HasKey(props, k)
    THEN props[CHOOSE i \in 1..Len(props) : props[i].k = k].v
    ELSE Undefined

-----------------------------------------------------------------------------
(* What the properties below speak of *)

LogOps == {"debug", "info", "warn", "error", "critical"}

\* a call that writes is observed: a logging operation, or emit itself
Logged == call.op \in LogOps \cup {"emit"}

\* ... made with no window global (server context), with one (client context)
ServerCall == Logged /\ call.window = Undefined

ClientCall == Logged /\ call.window # Undefined

\* the text written by the observed call
Emitted == console[1].text

\* the record the text denotes
Record == JSONparse(Emitted)

\* the message text of an input: the string, or the message of the Error
MessageText(input) == IF input.t = "error" THEN input.message ELSE input.s

\* the properties of a labels mapping that may be absent
PropsOf(v) == IF v.t = "object" THEN v.props ELSE <<>>

TypeOK ==
    /\ window \in WindowValues
    /\ Logged => Len(console) = 1
    /\ ServerCall => Record.t = "object"

\* the level each operation of the public API stands for
ExpectedLevel(op) ==
    CASE op = "debug"    -> LevelDebug
      [] op = "info"     -> LevelInfo
      [] op = "warn"     -> LevelWarning
      [] op = "error"    -> LevelError
      [] op = "critical" -> LevelCritical
      [] OTHER           -> LevelOther

\* the keys of the record written, in the order written
RecordKeys == OwnKeys(PropsOf(Record))

\* the labels written: the members of the record's labels object, if any
HasLabels == HasKey(PropsOf(Record), KeyLabels)

EmittedLabels == PropsOf(Get(PropsOf(Record), KeyLabels))

\* the default labels and the call-site labels of the observed call
D == PropsOf(call.defaults)

C == PropsOf(call.labels)

KeySet(props) == {props[i].k : i \in 1..Len(props)}

\* D overridden by C, as a mapping
Overridden(k) == IF HasKey(C, k) THEN Get(C, k) ELSE Get(D, k)

-----------------------------------------------------------------------------
(* C1 *)

\* C1: in server context, a call of any of the five operations with a string
\* message and no label from the defaults or the call site writes exactly the
\* JSON encoding of {time, level, message}, level being the operation's level
\* and message the string; the record has no stack key and no labels key.
C1_ThreeKeyRecord ==
    (ServerCall /\ call.op \in LogOps /\ call.input.t = "string"
         /\ D = <<>> /\ C = <<>>) =>
        /\ Emitted = <<"{">> \o QuoteJSONString(KeyTime) \o <<":">>
                         \o QuoteJSONString(toISOString(call.ms))
                         \o <<",">> \o QuoteJSONString(KeyLevel) \o <<":">>
                         \o QuoteJSONString(ExpectedLevel(call.op))
                         \o <<",">> \o QuoteJSONString(KeyMessage) \o <<":">>
                         \o QuoteJSONString(call.input.s) \o <<"}">>
        /\ LET R == PropsOf(Record)
           IN  /\ OwnKeys(R) = <<KeyTime, KeyLevel, KeyMessage>>
               /\ Get(R, KeyLevel) = Str(ExpectedLevel(call.op))
               /\ Get(R, KeyMessage) = call.input

\* warn of a message with characters to escape, the defaults set to an empty
\* mapping and an empty call-site mapping: three keys are written
C1_Witness ==
    /\ ServerCall
    /\ call.op = "warn"
    /\ call.input = Str(<<"\"", "\\", "\n">>)
    /\ call.defaults = Obj(<<>>)
    /\ call.labels = Obj(<<>>)
    /\ RecordKeys = <<KeyTime, KeyLevel, KeyMessage>>

-----------------------------------------------------------------------------
(* C2 *)

\* the console method the claim gives each operation; emit with another
\* level falls back to info
ExpectedChannel(op) ==
    CASE op = "debug"    -> "debug"
      [] op = "info"     -> "info"
      [] op = "warn"     -> "warn"
      [] op = "error"    -> "error"
      [] op = "critical" -> "error"
      [] OTHER           -> "info"

\* C2: every call, in either context, makes exactly one write, to the channel
\* its level selects: debug, info, warn for debug, info, warning, error for
\* error and critical, and info for a level that is none of the five.
C2_OneWriteByLevel ==
    Logged =>
        /\ Len(console) = 1
        /\ console[1].channel = ExpectedChannel(call.op)
        /\ call.level = ExpectedLevel(call.op)

\* emit with a level that is none of the five, in client context, wrote to info
C2_Witness ==
    /\ ClientCall
    /\ call.level = LevelOther
    /\ Len(console) = 1
    /\ console[1].channel = "info"

-----------------------------------------------------------------------------
(* C3 *)

\* C3 as claimed: in server context with defaults D set by init, every key of
\* the call-site labels C is written with C's value, every other key of D with
\* D's value, and no other key.
C3_Original ==
    (ServerCall /\ call.defaults.t = "object") =>
        LET L == EmittedLabels
        IN  /\ \A k \in KeySet(D) \cup KeySet(C) :
                  HasKey(L, k) /\ Get(L, k) = Overridden(k)
            /\ KeySet(L) \subseteq KeySet(D) \cup KeySet(C)

\* C3 as amended: the labels written (none, when no labels key is written)
\* are those of D overridden by C whose value is not undefined, each with its
\* overriding value, null as null; a key whose overriding value is undefined
\* is not written, even when D has a value for it.
C3_MergedLabels ==
    (ServerCall /\ call.defaults.t = "object") =>
        LET L == EmittedLabels
        IN  /\ Record.t = "object"
            /\ \A k \in KeySet(D) \cup KeySet(C) :
                  /\ HasKey(L, k) <=> Overridden(k) # Undefined
                  /\ HasKey(L, k) => Get(L, k) = Overridden(k)
            /\ KeySet(L) \subseteq KeySet(D) \cup KeySet(C)

\* the defaults {a: "v", b: "v"} and the call-site labels {b: "w", 2: "w"}
\* gave a: "v", b: "w" and 2: "w"
C3_Witness ==
    /\ ServerCall
    /\ D = <<[k |-> <<"a">>, v |-> Str(<<"v">>)], [k |-> <<"b">>, v |-> Str(<<"v">>)]>>
    /\ C = <<[k |-> <<"2">>, v |-> Str(<<"w">>)], [k |-> <<"b">>, v |-> Str(<<"w">>)]>>
    /\ KeySet(EmittedLabels) = {<<"a">>, <<"b">>, <<"2">>}
    /\ Get(EmittedLabels, <<"a">>) = Str(<<"v">>)
    /\ Get(EmittedLabels, <<"b">>) = Str(<<"w">>)
    /\ Get(EmittedLabels, <<"2">>) = Str(<<"w">>)

-----------------------------------------------------------------------------
(* C4 *)

\* C4: in server context the text never has labels as an empty object, and
\* never has stack or labels as null.
C4_NoEmptyLabels ==
    ServerCall =>
        LET R == Record
        IN  /\ R.t = "object"
            /\ HasKey(R.props, KeyLabels) =>
                   /\ Get(R.props, KeyLabels) # Obj(<<>>)
                   /\ Get(R.props, KeyLabels) # Null
            /\ HasKey(R.props, KeyStack) => Get(R.props, KeyStack) # Null

-----------------------------------------------------------------------------
(* C5 *)

\* C5: in client context, whatever the level, the input, the call-site labels
\* and the init calls before, the one text written is the plain message: the
\* string, or the message of the Error, and no JSON.
C5_PlainMessage ==
    ClientCall =>
        /\ Len(console) = 1
        /\ Emitted = MessageText(call.input)
        /\ JSONparse(Emitted) = Undefined

\* an Error with a stack, logged in client context with labels and with
\* defaults set: its message alone was written
C5_Witness ==
    /\ ClientCall
    /\ call.op = "critical"
    /\ call.input = Err(<<"B">>, Str(StackText))
    /\ C # <<>>
    /\ D # <<>>
    /\ Emitted = <<"B">>

-----------------------------------------------------------------------------
(* C6 *)

\* an Error that carries a stack trace
CarriesStack(input) ==
    input.t = "error" /\ input.stack.t = "string" /\ input.stack.s # <<>>

\* C6: in server context the record's message is the message text of the
\* input; an Error with a stack trace gives a stack key holding the stack
\* text as it is; an Error without one, and a string, give no stack key.
C6_MessageAndStack ==
    ServerCall =>
        LET R == Record
        IN  /\ R.t = "object"
            /\ Get(R.props, KeyMessage) = Str(MessageText(call.input))
            /\ HasKey(R.props, KeyStack) <=> CarriesStack(call.input)
            /\ CarriesStack(call.input) =>
                   Get(R.props, KeyStack) = call.input.stack

\* critical of an Error with a stack, in server context: the stack, with its
\* line break and tab, reads back as it was
C6_Witness ==
    /\ ServerCall
    /\ call.op = "critical"
    /\ call.input = Err(<<"B">>, Str(StackText))
    /\ Get(PropsOf(Record), KeyStack) = Str(StackText)
    /\ Get(PropsOf(Record), KeyMessage) = Str(<<"B">>)

-----------------------------------------------------------------------------
(* C7 *)

\* C7: the default labels are the very mapping given by the latest init call
\* that gave one: a call that gives a mapping replaces the defaults by it (an
\* empty one clears them), a call that gives none leaves them as they were,
\* and before any is given the defaults are unset and no default label is
\* written.
C7_LatestGiven ==
    /\ defaultLabels = given
    /\ (call.op = "init" /\ call.labels # Undefined) =>
           Deref(defaultLabels) = call.labels
    /\ (call.op = "init" /\ call.labels = Undefined) =>
           Deref(defaultLabels) = call.defaults
    /\ given = Undefined =>
           /\ defaultLabels = Undefined
           /\ ServerCall => KeySet(EmittedLabels) \subseteq KeySet(C)

\* init with an empty mapping, made when the defaults were {a: "v"}, left the
\* defaults empty
C7_Witness ==
    /\ call.op = "init"
    /\ call.defaults = Obj(<<[k |-> <<"a">>, v |-> Str(<<"v">>)]>>)
    /\ call.labels = Obj(<<>>)
    /\ Deref(defaultLabels) = Obj(<<>>)

-----------------------------------------------------------------------------
(* C8 *)

\* C8: whatever the calls before observed, a call writes the plain message if
\* window is defined when it is made, and the JSON record if it is not.
C8_ContextPerCall ==
    Logged =>
        IF call.window # Undefined
        THEN Emitted = MessageText(call.input)
        ELSE LET R == Record
             IN  /\ R.t = "object"
                 /\ HasKey(R.props, KeyTime)
                 /\ Get(R.props, KeyMessage) = Str(MessageText(call.input))

\* a call made with window defined, after a call made without: it wrote the
\* plain message
C8_Witness ==
    /\ Logged
    /\ call.before = "server"
    /\ call.window # Undefined
    /\ Emitted = MessageText(call.input)

-----------------------------------------------------------------------------
(* C9 *)

\* the order the claim gives the label keys: the keys of the defaults in
\* their own order, then the call-site keys that are no default key
ClaimedOrder == OwnKeys(D) \o SelectSeq(OwnKeys(C), LAMBDA k : ~HasKey(D, k))

\* the integer-like keys of a set in ascending numeric order
RECURSIVE Ascending(_)
Ascending(S) ==
    IF S = {} THEN <<>>
    ELSE LET m == CHOOSE k \in S : \A j \in S : ToNumber(k) <= ToNumber(j)
         IN  <<m>> \o Ascending(S \ {m})

\* the order as amended: the integer-like keys first, in ascending numeric
\* order, then the other keys in the order the claim gives
AmendedOrder ==
    Ascending({k \in KeySet(D) \cup KeySet(C) : IsArrayIndex(k)})
        \o SelectSeq(ClaimedOrder, LAMBDA k : ~IsArrayIndex(k))

\* the keys of a record are time, level, message, stack, labels, in this
\* order, the last two when present
FixedOrder(keys) ==
    keys \in {<<KeyTime, KeyLevel, KeyMessage>>,
              <<KeyTime, KeyLevel, KeyMessage, KeyStack>>,
              <<KeyTime, KeyLevel, KeyMessage, KeyLabels>>,
              <<KeyTime, KeyLevel, KeyMessage, KeyStack, KeyLabels>>}

\* C9 as claimed: in server context the keys of the record come in the order
\* time, level, message, stack, labels; within labels the default keys come
\* first in their own order, then the call-site keys that are no default key.
C9_Original ==
    ServerCall =>
        LET L == EmittedLabels
        IN  /\ FixedOrder(RecordKeys)
            /\ OwnKeys(L) = SelectSeq(ClaimedOrder, LAMBDA k : HasKey(L, k))

\* C9 as amended: the keys of the record come in the order time, level,
\* message, stack, labels; within labels the integer-like keys (canonical
\* array indices such as "2" and "10") come first, in ascending numeric order,
\* whichever mapping they are from, then the other default keys in their own
\* order, then the other call-site keys that are no default key.
C9_KeyOrder ==
    ServerCall =>
        LET L == EmittedLabels
        IN  /\ FixedOrder(RecordKeys)
            /\ OwnKeys(L) = SelectSeq(AmendedOrder, LAMBDA k : HasKey(L, k))

\* an Error with a stack, the default {10: "v"} and the call-site {2: "w"}:
\* five keys were written, and the labels in the order 2, 10
C9_Witness ==
    /\ ServerCall
    /\ OwnKeys(D) = <<<<"1", "0">>>>
    /\ OwnKeys(C) = <<<<"2">>>>
    /\ OwnKeys(EmittedLabels) = <<<<"2">>, <<"1", "0">>>>
    /\ RecordKeys = <<KeyTime, KeyLevel, KeyMessage, KeyStack, KeyLabels>>

-----------------------------------------------------------------------------
(* C10 *)

KeyTimestamp == <<"t", "i", "m", "e", "s", "t", "a", "m", "p">>

\* C10: as the README shows it, info with a message and two labels writes, in
\* server context, an object with the time under the key timestamp and with
\* the labels as keys of the object itself, not under a key labels.
C10_ReadmeShape ==
    (ServerCall /\ call.op = "info" /\ call.defaults = Undefined
         /\ C = <<[k |-> <<"a">>, v |-> Str(<<"w">>)],
                  [k |-> <<"b">>, v |-> Str(<<"w">>)]>>) =>
        LET R == PropsOf(Record)
        IN  /\ HasKey(R, KeyTimestamp)
            /\ ~HasKey(R, KeyLabels)
            /\ \A k \in KeySet(C) : HasKey(R, k) /\ Get(R, k) = Get(C, k)

-----------------------------------------------------------------------------
(* C11 *)

\* a step that is a call of one of the five logging operations
LogStep == call' # call /\ call'.op \in LogOps

\* a step that is a call of init
InitStep == call' # call /\ call'.op = "init"

\* a step in which the caller itself changes the mapping it gave to init,
\* and the logger does nothing
CallerStep ==
    /\ given.t = "ref"
    /\ given' = given
    /\ defaultLabels' = defaultLabels
    /\ heap' # heap
    /\ call'.op = "none"

\* a logging call leaves the variable defaultLabels, the mapping given to
\* init and the call-site labels as they were, and reads the defaults as they
\* are when it is made
LogFrame ==
    LogStep =>
        /\ defaultLabels' = defaultLabels
        /\ heap' = heap
        /\ given' = given
        /\ call'.after = call'.labels
        /\ call'.defaults = Deref(defaultLabels)

\* C11 as claimed: the five logging operations change neither the default
\* labels nor the mapping given to init nor the call-site labels, in either
\* context, and only init changes the default labels: between two init calls
\* the defaults the logging calls see do not change.
C11_Original ==
    [][/\ LogFrame
       /\ DerefIn(heap', defaultLabels') # Deref(defaultLabels) => InitStep]_vars

\* C11 as amended: the five logging operations change neither the default
\* labels nor the mapping given to init nor the call-site labels, in either
\* context; the defaults change only by a call of init or by the caller
\* changing the mapping it gave to init, which the logger holds by reference.
\* So the logging calls made between two init calls see the same defaults
\* as long as the caller leaves that mapping alone.
C11_FrameOfLogging ==
    [][/\ LogFrame
       /\ DerefIn(heap', defaultLabels') # Deref(defaultLabels) =>
              InitStep \/ CallerStep]_vars

\* a server-context call with the defaults {a: "v"} and the call-site labels
\* {a: "w"} wrote a: "w", and left both mappings as they were
C11_Witness ==
    /\ ServerCall
    /\ call.op \in LogOps
    /\ call.defaults = Obj(<<[k |-> <<"a">>, v |-> Str(<<"v">>)]>>)
    /\ call.labels = Obj(<<[k |-> <<"a">>, v |-> Str(<<"w">>)]>>)
    /\ Get(EmittedLabels, <<"a">>) = Str(<<"w">>)
    /\ call.after = call.labels
    /\ Deref(defaultLabels) = call.defaults
    /\ defaultLabels = given

-----------------------------------------------------------------------------
(* C12 *)

\* the mapping the caller last gave to init, as it is now
G == PropsIn(heap, given)

\* G overridden by C, as a mapping
OverriddenNow(k) == IF HasKey(C, k) THEN Get(C, k) ELSE Get(G, k)

\* C12: init keeps the caller's mapping itself, not a copy: after the caller
\* has added, changed or removed keys of the mapping it last gave to init, a
\* server-context call writes the labels of the mapping as it is when the
\* call is made, overridden by the call-site labels, whatever the mapping
\* held when it was given to init.
C12_LiveDefaults ==
    (ServerCall /\ given.t = "ref") =>
        LET L == EmittedLabels
        IN  /\ Record.t = "object"
            /\ defaultLabels = given
            /\ \A k \in KeySet(G) \cup KeySet(C) \cup KeySet(PropsOf(call.initial)) :
                  /\ HasKey(L, k) <=> OverriddenNow(k) # Undefined
                  /\ HasKey(L, k) => Get(L, k) = OverriddenNow(k)
            /\ KeySet(L) \subseteq KeySet(G) \cup KeySet(C)

\* the mapping was {a: "v", b: "v"} when given to init; the caller has since
\* removed a, changed b and added c; a server-context call with no call-site
\* labels wrote b: "x" and c: "v", and no a
C12_Witness ==
    /\ ServerCall
    /\ call.labels = Undefined
    /\ call.initial = Obj(<<[k |-> <<"a">>, v |-> Str(<<"v">>)],
                            [k |-> <<"b">>, v |-> Str(<<"v">>)]>>)
    /\ given.t = "ref"
    /\ G = <<[k |-> <<"b">>, v |-> Str(<<"x">>)], [k |-> <<"c">>, v |-> Str(<<"v">>)]>>
    /\ EmittedLabels = G

=============================================================================
